---------------------------- MODULE Spec2Model ----------------------------
(***************************************************************************)
(* Model of bot.py, the Cortensor node monitoring bot: the two retrying    *)
(* explorer fetches (safe_fetch_balance, safe_fetch_transactions), the     *)
(* batch evaluation of menu_check_status / auto_update, the computation    *)
(* of status, health strip and stall status from a transaction list, the   *)
(* alert job (alert_check), the conversations that change data.json (Add   *)
(* Address, Remove Address, Set Delay) and the commands that start and     *)
(* stop the jobs.                                                          *)
(*                                                                         *)
(* Specifications: Spec (a batch), SpecWindow (the report of one list),    *)
(* SpecAlert (a run of alert_check), SpecStore (Add and Remove Address of  *)
(* two chats, from the empty data.json), SpecChoice (Add and Remove        *)
(* Address of one chat, its texts spelled in every way), SpecInterval (Set *)
(* Delay), SpecJobs (Auto Update, Enable Alerts, Stop and the runs of the  *)
(* jobs), SpecRace (a job that runs while the dispatcher saves data.json). *)
(*                                                                         *)
(* Representation.                                                         *)
(*  - A string is a sequence of tokens: a token is one character, or a     *)
(*    word of a provider message that no test of the code looks inside.    *)
(*  - A key of a JSON object that may be absent is a sequence of length    *)
(*    0 (absent) or 1 (present, holding the value).                        *)
(*  - A balance is kept in wei; the code's division by 10**18 is a         *)
(*    change of unit the model does not perform.                           *)
(***************************************************************************)
EXTENDS Integers, Sequences, FiniteSets, TLC

VARIABLES
    data,          \* the address list data.json holds for the chat of the batch
    pc,            \* position of the handler: idle, balance, transactions, report, done
    handler,       \* the handler that runs: none, menu_check_status, auto_update
    addresses,     \* local `addresses` of the handler, already cut to the batch size
    idx,           \* 1-based position of the loop `for item in addresses`
    attempt,       \* loop variable `attempt` of the fetch in progress
    fetch,         \* the current (or last finished) fetch: function, wallet, running, events
    balance,       \* local `balance` (wei)
    txs,           \* local `txs`
    output_lines,  \* local `output_lines`: the reports built so far
    sent,          \* messages sent to the chat
    raised,        \* an exception left the handler
    fetched,       \* wallets given to a fetch by this handler run, in call order
    faults,        \* fetches of this run in which the provider misbehaved
    file,          \* data.json as the dispatcher reads and saves it: chat id ->
                   \* chat_data (addresses, interval)
    conv,          \* chat id -> the conversation states the chat is in (none: END)
    jobs,          \* the jobs of the job queue, in the order they were scheduled
    event,         \* the last update or job the bot handled, and its outcome
    removals,      \* number of addresses removed so far
    written        \* data.json as last written out in full: what a thread of the job
                   \* queue can read of it (while written # file the dispatcher is
                   \* inside save_data and the file is empty or cut short)

batchVars == << data, pc, handler, addresses, idx, attempt, fetch, balance, txs,
                output_lines, sent, raised, fetched, faults >>

botVars == << file, conv, jobs, event, removals, written >>

vars == << batchVars, botVars >>

-----------------------------------------------------------------------------
(* Program constants *)

max_retries == 3

MAX_NODES == 15

FETCH_DELAY == 2

WINDOW == 25

DEFAULT_UPDATE_INTERVAL == 300

MIN_AUTO_UPDATE_INTERVAL == 60

ALERT_INTERVAL == 900

QUIET_SECS == 900

ADDRESS_LEN == 42

GROUP_SIZE == 5

NUM_GROUPS == 5

ONLINE_SECS == 300

PAGE_SIZE == 100

(* The instant of the evaluation, datetime.now(WIB), in seconds. *)
Now == 1000

(* Bounds of the model *)

MaxShort == 2

MaxOver == 1

MaxFaultyFetches == 1

MaxLen == 26

(* Addresses the users remove in one run of the model *)
MaxRemovals == 1

-----------------------------------------------------------------------------
(* Sequences and strings *)

Min(a, b) == IF a <= b THEN a ELSE b

SetMin(S) == CHOOSE x \in S : \A y \in S : x <= y

SetMax(S) == CHOOSE x \in S : \A y \in S : y <= x

(* Python s[a:b] for 0 <= a <= b *)
Slice(s, a, b) ==
    IF a >= Min(b, Len(s)) THEN << >> ELSE SubSeq(s, a + 1, Min(b, Len(s)))

(* str.lower() on the characters that occur in hexadecimal input data *)
LowerChar(c) ==
    CASE c = "A" -> "a" [] c = "B" -> "b" [] c = "C" -> "c" [] c = "D" -> "d"
      [] c = "E" -> "e" [] c = "F" -> "f" [] c = "X" -> "x" [] OTHER -> c

Lower(s) == [i \in 1..Len(s) |-> LowerChar(s[i])]

(* str.startswith *)
StartsWith(s, prefix) ==
    Len(s) >= Len(prefix) /\ SubSeq(s, 1, Len(prefix)) = prefix

(* `needle in haystack` on strings *)
Contains(haystack, needle) ==
    \E i \in 0..(Len(haystack) - Len(needle)) :
        SubSeq(haystack, i + 1, i + Len(needle)) = needle

RECURSIVE LStrip(_)
LStrip(s) == IF s # << >> /\ s[1] = " " THEN LStrip(Tail(s)) ELSE s

RECURSIVE RStrip(_)
RStrip(s) == IF s # << >> /\ s[Len(s)] = " " THEN RStrip(SubSeq(s, 1, Len(s) - 1)) ELSE s

(* str.strip() on blanks *)
Strip(s) == RStrip(LStrip(s))

(* str.split(","): the parts between the commas, empty parts included *)
Split(s) ==
    LET commas == {i \in 1..Len(s) : s[i] = ","}
        n == Cardinality(commas)
        comma(k) == CHOOSE i \in commas : Cardinality({j \in commas : j < i}) = k - 1
        first(k) == IF k = 1 THEN 1 ELSE comma(k - 1) + 1
        last(k) == IF k = n + 1 THEN Len(s) ELSE comma(k) - 1
    IN  [k \in 1..(n + 1) |-> SubSeq(s, first(k), last(k))]

Digits == {"0", "1", "2", "3", "4", "5", "6", "7", "8", "9"}

DigitVal(c) ==
    CASE c = "0" -> 0 [] c = "1" -> 1 [] c = "2" -> 2 [] c = "3" -> 3
      [] c = "4" -> 4 [] c = "5" -> 5 [] c = "6" -> 6 [] c = "7" -> 7
      [] c = "8" -> 8 [] c = "9" -> 9

(* int(s) succeeds on a string: a non-empty run of decimal digits (sign,   *)
(* blanks and underscores, which int() also accepts, are not generated).   *)
IsIntString(s) == Len(s) > 0 /\ \A i \in 1..Len(s) : s[i] \in Digits

RECURSIVE ParseInt(_)
ParseInt(s) ==
    IF Len(s) = 0 THEN 0
    ELSE 10 * ParseInt(SubSeq(s, 1, Len(s) - 1)) + DigitVal(s[Len(s)])

RATE_LIMIT_TEXT == << "Max", " ", "calls", " ", "per", " ", "sec", " ", "rate", " ", "limit" >>

HEARTBEAT == << "0", "x", "5", "c", "3", "6", "b", "1", "8", "6" >>


-----------------------------------------------------------------------------
(* What the explorer answers to one request.                               *)
(*   t = "exc"  : requests.get or response.json() raises, or the body is   *)
(*                not a JSON object (json_resp.get raises)                 *)
(*   t = "str"  : the result field is the string s ("" when the key is     *)
(*                absent from a balance response)                          *)
(*   t = "num"  : the result field is the JSON number n                    *)
(*   t = "null" : the result field is null or a JSON object                *)
(*   t = "list" : the result field is the list l ([] when the key is       *)
(*                absent from a transactions response)                     *)

Payload(t, s, n, l) == [t |-> t, s |-> s, n |-> n, l |-> l]

ExcPayload == Payload("exc", << >>, 0, << >>)

StrPayload(s) == Payload("str", s, 0, << >>)

NumPayload(n) == Payload("num", << >>, n, << >>)

NullPayload == Payload("null", << >>, 0, << >>)

ListPayload(l) == Payload("list", << >>, 0, l)

RateLimitMessage == RATE_LIMIT_TEXT \o << " ", "reached" >>

OtherMessage == << "Invalid", " ", "API", " ", "Key" >>

(* One transaction record of a txlist answer, or an element that is not a  *)
(* JSON object (dict = FALSE).                                             *)
Tx(ts, err, inp) == [dict |-> TRUE, timeStamp |-> ts, isError |-> err, input |-> inp]

NonDict == [dict |-> FALSE, timeStamp |-> << >>, isError |-> << >>, input |-> << >>]

Present(v) == << v >>

Absent == << >>

StampOnline == << "7", "0", "0" >>

StampOffline == << "6", "9", "9" >>

StampBad == << "7", "x" >>

HeartbeatUpper == << "0", "X", "5", "C", "3", "6", "B", "1", "8", "6", "0", "0", "A", "F" >>

CommitInput == << "0", "x", "f", "2", "1", "a", "4", "9", "4", "b", "0", "1" >>

ShortInput == << "0", "x", "5", "c", "3", "6" >>

PingOk == Tx(Present(StampOnline), Present(<< "0" >>), Present(HEARTBEAT))

CommitOk == Tx(Present(StampOnline), Present(<< "0" >>), Present(CommitInput))

CommitFailed == Tx(Present(StampOffline), Present(<< "1" >>), Present(CommitInput))

NoStamp == Tx(Absent, Present(<< "0" >>), Present(CommitInput))

DefaultTxs == << CommitOk, PingOk >>

(* The answers the model lets the provider give. The nominal ones are      *)
(* free; another answer to the first attempt of a fetch makes the fetch a  *)
(* faulty one, of which a run has at most MaxFaultyFetches.                *)
NominalBalance == { StrPayload(<< "5" >>) }

BalancePayloads ==
    NominalBalance \cup
    { ExcPayload, NullPayload, ListPayload(<< >>), NumPayload(7),
      StrPayload(<< "0" >>), StrPayload(<< >>),
      StrPayload(RateLimitMessage), StrPayload(OtherMessage) }

NominalTxs == { ListPayload(DefaultTxs) }

TxPayloads ==
    NominalTxs \cup
    { ExcPayload, NullPayload, NumPayload(7), ListPayload(<< >>),
      StrPayload(RateLimitMessage), StrPayload(OtherMessage),
      ListPayload(<< NonDict >>), ListPayload(<< NoStamp, PingOk >>),
      ListPayload(<< CommitFailed, NonDict >>), ListPayload(<< PingOk, NonDict >>) }

-----------------------------------------------------------------------------
(* The fetches *)

(* Mutant: the outer handler catches only the exceptions of the request,  *)
(* so that the TypeError of int(None) leaves the function                  *)
BalanceOutcome_Uncaught(p) ==
    CASE p.t = "exc" -> [act |-> "except", value |-> 0]
      [] p.t = "num" -> [act |-> "return", value |-> p.n]
      [] p.t = "str" ->
            IF IsIntString(p.s) THEN [act |-> "return", value |-> ParseInt(p.s)]
            ELSE IF Contains(p.s, RATE_LIMIT_TEXT) THEN [act |-> "ratelimit", value |-> 0]
            ELSE [act |-> "return", value |-> 0]
      [] OTHER -> [act |-> "raise", value |-> 0]

(* What one attempt of safe_fetch_balance does with the answer p:          *)
(*   "return"    : leave the function with `value`                         *)
(*   "ratelimit" : the rate-limit branch: sleep, continue                  *)
(*   "except"    : the outer except: log, then the sleep that ends the     *)
(*                 loop body                                               *)
(*   "raise"     : an exception no handler of the function catches; no     *)
(*                 answer produces it, `except Exception` catches all      *)
(* int() of a number succeeds; int() of null, a list or an object raises   *)
(* TypeError, which only the outer except catches.                         *)
BalanceOutcome(p) ==
    CASE p.t = "exc" -> [act |-> "except", value |-> 0]
      [] p.t = "num" -> [act |-> "return", value |-> p.n]
      [] p.t = "str" ->
            IF IsIntString(p.s) THEN [act |-> "return", value |-> ParseInt(p.s)]
            ELSE IF Contains(p.s, RATE_LIMIT_TEXT) THEN [act |-> "ratelimit", value |-> 0]
            ELSE [act |-> "return", value |-> 0]
      [] OTHER -> [act |-> "except", value |-> 0]

(* What one attempt of safe_fetch_transactions does with the answer p. *)
(* The answers the provider may give to alert_check: transactions 900 s    *)
(* and 901 s old, 24 and 25 heartbeats, a commit among them, records       *)
(* without time stamp, and the failures of a request.                      *)
AlertTxPayloads ==
    LET StampQuiet == << "0", "9", "9" >>
        StampEdge == << "1", "0", "0" >>
        PingQuiet == Tx(Present(StampQuiet), Present(<< "0" >>), Present(HeartbeatUpper))
        PingNoStamp == Tx(Absent, Present(<< "0" >>), Present(HEARTBEAT))
    IN
    NominalTxs \cup
    { ExcPayload, StrPayload(RateLimitMessage), ListPayload(<< >>),
      ListPayload(<< Tx(Present(StampEdge), Present(<< "0" >>), Present(CommitInput)) >>),
      ListPayload(<< Tx(Present(StampQuiet), Present(<< "0" >>), Present(CommitInput)), PingOk >>),
      ListPayload([i \in 1..(WINDOW - 1) |-> PingOk]),
      ListPayload([i \in 1..WINDOW |-> PingOk]),
      ListPayload([i \in 1..(WINDOW + 1) |-> IF i = WINDOW THEN CommitOk ELSE PingOk]),
      ListPayload([i \in 1..(WINDOW + 1) |-> IF i > WINDOW THEN CommitOk ELSE PingQuiet]),
      ListPayload([i \in 1..WINDOW |-> IF i = 1 THEN PingNoStamp ELSE PingOk]),
      ListPayload(<< NoStamp, PingOk >>),
      ListPayload([i \in 1..WINDOW |-> IF i = 2 THEN NonDict ELSE PingOk]) }

TransactionsOutcome(p) ==
    CASE p.t = "exc" -> [act |-> "except", value |-> << >>]
      [] p.t = "list" /\ p.l # << >> /\ p.l[1].dict -> [act |-> "return", value |-> p.l]
      [] p.t = "str" /\ Contains(p.s, RATE_LIMIT_TEXT) -> [act |-> "ratelimit", value |-> << >>]
      [] OTHER -> [act |-> "return", value |-> << >>]

(* Mutant: the rate-limit branch without its `continue`: the sleep at the *)
(* end of the loop body is added to the doubled one                        *)
RateLimitSleep_Added(delay, att) == delay * (att + 1) * 2 + delay * (att + 1)

(* time.sleep(delay * (attempt+1) * 2) of the rate-limit branch *)
RateLimitSleep(delay, att) == delay * (att + 1) * 2

(* time.sleep(delay * (attempt+1)) at the end of the loop body *)
ExceptSleep(delay, att) == delay * (att + 1)

Call(att, p, act) == [e |-> "call", attempt |-> att, p |-> p, act |-> act, secs |-> 0]

Sleep(att, p, act, secs) == [e |-> "sleep", attempt |-> att, p |-> p, act |-> act, secs |-> secs]

(* The events one loop iteration adds: the request, then its sleep if any *)
AttemptEvents(p, o, delay, att) ==
    CASE o.act \in {"return", "raise"} -> << Call(att, p, o.act) >>
      [] o.act = "ratelimit" ->
            << Call(att, p, o.act), Sleep(att, p, o.act, RateLimitSleep(delay, att)) >>
      [] OTHER ->
            << Call(att, p, o.act), Sleep(att, p, o.act, ExceptSleep(delay, att)) >>

(* Mutant: the loop admits one iteration more, range(max_retries + 1) *)
LoopContinues_OneMore(o, att) == o.act \notin {"return", "raise"} /\ att + 1 < max_retries + 1

(* `for attempt in range(max_retries)` goes on after iteration att *)
LoopContinues(o, att) == o.act \notin {"return", "raise"} /\ att + 1 < max_retries

(* The fetch after one more loop iteration *)
FetchAfter(fn, wallet, p, o, delay) ==
    [fn      |-> fn,
     wallet  |-> wallet,
     delay   |-> delay,
     running |-> LoopContinues(o, attempt),
     events  |-> (IF attempt = 0 THEN << >> ELSE fetch.events)
                    \o AttemptEvents(p, o, delay, attempt)]

NoFetch == [fn |-> "none", wallet |-> 0, delay |-> 0, running |-> FALSE, events |-> << >>]

(* The provider may give answer p to the attempt about to be made *)
MayAnswer(p, nominal) ==
    p \in nominal \/ attempt > 0 \/ faults < MaxFaultyFetches

FaultsAfter(p, nominal) ==
    IF attempt = 0 /\ p \notin nominal THEN faults + 1 ELSE faults

FetchedAfter(fn, wallet) ==
    IF attempt = 0 THEN Append(fetched, [fn |-> fn, wallet |-> wallet]) ELSE fetched

-----------------------------------------------------------------------------
(* The report of one address (the loop body after the two fetches) *)

(* all(P(tx) for tx in seq), ok[i] being P(seq[i]): the generator stops   *)
(* at the first element that fails P; an element that is no dict raises    *)
(* AttributeError when it is reached (tx.get).                             *)
AllOf(seq, ok) ==
    LET stop == {i \in 1..Len(seq) : ~seq[i].dict \/ ~ok[i]}
    IN  IF stop = {} THEN "true"
        ELSE IF seq[SetMin(stop)].dict THEN "false" ELSE "raise"

(* tx.get('isError') == '0' *)
IsErrorZero(tx) == tx.isError = Present(<< "0" >>)

(* Mutant: the selector is compared without lower() *)
IsHeartbeat_CaseSensitive(tx) ==
    StartsWith(IF tx.input = Absent THEN << >> ELSE tx.input[1], HEARTBEAT)

(* tx.get('input','').lower().startswith("0x5c36b186") *)
IsHeartbeat(tx) ==
    StartsWith(Lower(IF tx.input = Absent THEN << >> ELSE tx.input[1]), HEARTBEAT)

(* int(txs[0]['timeStamp']) raises: KeyError or ValueError *)
StampRaises(list) ==
    list[1].timeStamp = Absent \/ ~IsIntString(list[1].timeStamp[1])

LastTxTime(list) == ParseInt(list[1].timeStamp[1])

(* Mutant: a transaction exactly 5 minutes old counts as Offline *)
Status_Strict(list) ==
    IF Now - LastTxTime(list) < ONLINE_SECS THEN "Online" ELSE "Offline"

(* "Online" if time_diff <= timedelta(minutes=5) else "Offline" *)
Status(list) ==
    IF Now - LastTxTime(list) <= ONLINE_SECS THEN "Online" ELSE "Offline"

(* get_age *)
GetAge(timestamp) ==
    LET seconds == Now - timestamp
        minutes == seconds \div 60
    IN  IF seconds < 60 THEN << seconds, "secs ago" >>
        ELSE IF minutes < 60 THEN << minutes, "mins ago" >>
        ELSE << minutes \div 60, "hours ago" >>

Latest25(list) == Slice(list, 0, WINDOW)

(* Mutant: only the groups that hold a transaction are built *)
Groups_NoPadding(list) ==
    [g \in 1..((Len(Latest25(list)) + GROUP_SIZE - 1) \div GROUP_SIZE) |->
        Slice(Latest25(list), (g - 1) * GROUP_SIZE, g * GROUP_SIZE)]

(* groups = [latest_25[i*5:(i+1)*5] for i in range(5)] *)
Groups(list) ==
    [g \in 1..NUM_GROUPS |->
        Slice(Latest25(list), (g - 1) * GROUP_SIZE, g * GROUP_SIZE)]

(* Mutant: any() in place of all() *)
HealthGlyph_Any(group) ==
    IF group = << >> THEN "white"
    ELSE IF \E i \in 1..Len(group) : group[i].dict /\ IsErrorZero(group[i])
         THEN "green" ELSE "red"

(* One entry of health_list; "raise" when its all() raises *)
HealthGlyph(group) ==
    IF group = << >> THEN "white"
    ELSE LET a == AllOf(group, [i \in 1..Len(group) |-> IsErrorZero(group[i])])
         IN  IF a = "true" THEN "green" ELSE IF a = "false" THEN "red" ELSE "raise"

(* health_list = [... for group in groups] *)
HealthList(list) == [g \in DOMAIN Groups(list) |-> HealthGlyph(Groups(list)[g])]

(* Mutant: the window is taken as full one transaction early *)
StallCondition_OneShort(list) ==
    LET l25 == Latest25(list)
    IN  IF Len(l25) >= WINDOW - 1
        THEN AllOf(l25, [i \in 1..Len(l25) |-> IsHeartbeat(l25[i])])
        ELSE "false"

(* len(latest_25) >= 25 and all(heartbeat): "true", "false" or "raise" *)
StallCondition(list) ==
    LET l25 == Latest25(list)
    IN  IF Len(l25) >= WINDOW
        THEN AllOf(l25, [i \in 1..Len(l25) |-> IsHeartbeat(l25[i])])
        ELSE "false"

StallStatus(list) == IF StallCondition(list) = "true" THEN "Node Stall" ELSE "Normal"

(* The loop body raises while it builds the report of a non-empty list *)
ReportRaises(list) ==
    /\ list # << >>
    /\ \/ StampRaises(list)
       \/ \E g \in DOMAIN HealthList(list) : HealthList(list)[g] = "raise"
       \/ StallCondition(list) = "raise"

(* The entry appended to output_lines *)
Report(item, bal, list) ==
    IF list # << >> THEN
        [wallet        |-> item.address,
         label         |-> item.label,
         balance       |-> bal,
         status        |-> Status(list),
         last_activity |-> GetAge(LastTxTime(list)),
         health_status |-> HealthList(list),
         stall_status  |-> StallStatus(list)]
    ELSE
        [wallet        |-> item.address,
         label         |-> item.label,
         balance       |-> bal,
         status        |-> "Offline",
         last_activity |-> << 0, "N/A" >>,
         health_status |-> << "No transactions" >>,
         stall_status  |-> "N/A"]

-----------------------------------------------------------------------------
(* The stored addresses *)

(* A stored item {"address": ..., "label": ...}; the wallet is kept as an  *)
(* opaque identity, the label is "" or a text.                             *)
Item(k) == [address |-> k, label |-> IF k = 2 THEN << "n", "2" >> ELSE << >>]

StoredList(n) == [k \in 1..n |-> Item(k)]

StoredLens == (0..MaxShort) \cup (MAX_NODES..(MAX_NODES + MaxOver))

(* get_addresses_for_chat(chat_id) *)
GetAddressesForChat == data

(* parse_address_item(item)[0] *)
Wallet(item) == item.address

Message(text, reports) == [text |-> text, reports |-> reports]

-----------------------------------------------------------------------------
(* The bot as a whole: the chats, their conversations, the job queue *)

Chats == {1, 2}

(* load_data() when data.json does not exist *)
EmptyFile == << >>

NoEvent == [op |-> "none", chat |-> 0, result |-> "none", text |-> << >>]

(* The bot handled `op` for a chat, with this outcome *)
Event(op, chat, result) == [op |-> op, chat |-> chat, result |-> result, text |-> << >>]

(* The bot handled the text of a user *)
TextEvent(op, chat, result, text) == [op |-> op, chat |-> chat, result |-> result, text |-> text]

(* No conversation under way, no job scheduled: the bot after main() *)
BotIdle ==
    /\ file = EmptyFile
    /\ conv = [c \in Chats |-> {}]
    /\ jobs = << >>
    /\ event = NoEvent
    /\ removals = 0
    /\ written = file

(* The batch handlers at rest, for a chat without addresses *)
BatchIdle ==
    /\ data = << >>
    /\ pc = "idle"
    /\ handler = "none"
    /\ addresses = << >>
    /\ idx = 0
    /\ attempt = 0
    /\ fetch = NoFetch
    /\ balance = 0
    /\ txs = << >>
    /\ output_lines = << >>
    /\ sent = << >>
    /\ raised = FALSE
    /\ fetched = << >>
    /\ faults = 0

-----------------------------------------------------------------------------
(* data.json *)

(* A float: finite (n tenths), or nan, or inf *)
Finite(n) == [kind |-> "finite", tenths |-> n]

DefaultChatData ==
    [addresses |-> << >>, auto_update_interval |-> Finite(10 * DEFAULT_UPDATE_INTERVAL)]

get_chat_data(chat_id) ==
    IF chat_id \in DOMAIN file THEN file[chat_id] ELSE DefaultChatData

(* data.json after update_chat_data(chat_id, chat_data) *)
update_chat_data(chat_id, chat_data) ==
    [c \in (DOMAIN file) \cup {chat_id} |-> IF c = chat_id THEN chat_data ELSE file[c]]

get_addresses_for_chat(chat_id) == get_chat_data(chat_id).addresses

update_addresses_for_chat(chat_id, list) ==
    update_chat_data(chat_id, [get_chat_data(chat_id) EXCEPT !.addresses = list])

get_auto_update_interval(chat_id) == get_chat_data(chat_id).auto_update_interval

update_auto_update_interval(chat_id, interval) ==
    update_chat_data(chat_id, [get_chat_data(chat_id) EXCEPT !.auto_update_interval = interval])

-----------------------------------------------------------------------------
(* The texts the users send to the conversations *)

(* Wallet number k as a user types it: 0x, 38 zeros and k in two           *)
(* hexadecimal digits, in lower or in upper case. Wallet 0 is the text     *)
(* 0xzz...z: 42 characters that are no hexadecimal digits.                 *)
WalletText(k, upper) ==
    LET Repeat(c, n) == [i \in 1..n |-> c]
        hex == IF upper
               THEN << "0", "1", "2", "3", "4", "5", "6", "7", "8", "9", "A", "B", "C", "D", "E", "F" >>
               ELSE << "0", "1", "2", "3", "4", "5", "6", "7", "8", "9", "a", "b", "c", "d", "e", "f" >>
    IN  IF k = 0 THEN << "0", "x" >> \o Repeat("z", ADDRESS_LEN - 2)
        ELSE (IF upper THEN << "0", "X" >> ELSE << "0", "x" >>)
                \o Repeat("0", ADDRESS_LEN - 4)
                \o << hex[(k \div 16) + 1], hex[(k % 16) + 1] >>

(* The wallets the users of a chat know, in the order they add them: chat  *)
(* 1 knows enough wallets to fill its list, chat 2 a few, wallet 0 first.  *)
Known(chat_id) ==
    IF chat_id = 1 THEN [k \in 1..(MAX_NODES + MaxOver) |-> k]
    ELSE [k \in 1..MaxShort |-> k - 1]

(* The addresses of all wallets, as they are stored *)
WalletTexts == [k \in 0..(MAX_NODES + MaxOver) |-> WalletText(k, FALSE)]

(* The wallets offered to Add Address: of the known wallets that are not   *)
(* stored the first one, and the first and the last stored one again.      *)
Offered(chat_id) ==
    LET known == Known(chat_id)
        list == get_addresses_for_chat(chat_id)
        IsStoredWallet(k) == \E i \in DOMAIN list : list[i].address = WalletTexts[k]
        new == {i \in DOMAIN known : ~IsStoredWallet(known[i])}
    IN  {known[i] : i \in {j \in DOMAIN known :
            \/ new # {} /\ j = SetMin(new)
            \/ list # << >> /\ WalletTexts[known[j]] \in {list[1].address, list[Len(list)].address}}}

(* `wallet` or `wallet,label` as typed: plain, or in upper case with       *)
(* blanks around the text and after the comma; only wallet 2 is given a    *)
(* label.                                                                  *)
AddTextOf ==
    [k \in DOMAIN WalletTexts, upper \in BOOLEAN |->
        (IF upper THEN << " " >> ELSE << >>)
            \o WalletText(k, upper)
            \o (IF k # 2 THEN << >>
                ELSE (IF upper THEN << ",", " " >> ELSE << "," >>) \o << "n", "2" >>)
            \o (IF upper THEN << " " >> ELSE << >>)]

(* Texts that are no wallet address: 41 and 43 characters, no 0x in        *)
(* front, a word, a lone comma                                             *)
InvalidAddTexts ==
    { SubSeq(WalletText(1, FALSE), 1, ADDRESS_LEN - 1),
      WalletText(1, FALSE) \o << "0" >>,
      << "1" >> \o SubSeq(WalletText(1, FALSE), 2, ADDRESS_LEN),
      << "h", "i" >>,
      << "," >> }

(* A stored wallet sent again under another label: wallet 2 in upper case  *)
(* without its label, the others with the label `x`                        *)
RelabelledTextOf ==
    [k \in DOMAIN WalletTexts |->
        IF k = 2 THEN WalletText(2, TRUE) ELSE WalletTexts[k] \o << ",", "x" >>]

(* The texts sent to Add Address by the chats that fill their lists: the   *)
(* offered wallets as typed in lower case, and a word                      *)
AddTexts(chat_id) ==
    { AddTextOf[k, FALSE] : k \in Offered(chat_id) } \cup { << "h", "i" >> }

(* The wallets of the chat that spells its texts in every way *)
Spelled == 0..MaxShort

(* The texts that chat sends to Add Address: each of its wallets, stored   *)
(* or not, in both cases, a stored wallet again under another label, and   *)
(* the texts that are no address.                                          *)
SpelledTexts(chat_id) ==
    { AddTextOf[k, u] : k \in Spelled, u \in BOOLEAN }
        \cup { RelabelledTextOf[k] : k \in { j \in Spelled :
                    \E i \in DOMAIN get_addresses_for_chat(chat_id) :
                        get_addresses_for_chat(chat_id)[i].address = WalletTexts[j] } }
        \cup InvalidAddTexts

(* add_address_receive: the wallet and the label it reads from a text *)
AddressInput(text) ==
    LET stripped == Strip(text)
        parts == [k \in DOMAIN Split(stripped) |-> Strip(Split(stripped)[k])]
    IN  [wallet |-> Lower(parts[1]),
         label |-> IF Len(parts) > 1 THEN parts[2] ELSE << >>]

(* AddressInput on every text of the model *)
AddressInputs ==
    [text \in {AddTextOf[x] : x \in DOMAIN AddTextOf}
                \cup {RelabelledTextOf[k] : k \in DOMAIN RelabelledTextOf}
                \cup InvalidAddTexts |-> AddressInput(text)]

-----------------------------------------------------------------------------
(* The handlers *)

Init ==
    /\ data \in {StoredList(n) : n \in StoredLens}
    /\ pc = "idle"
    /\ handler = "none"
    /\ addresses = << >>
    /\ idx = 0
    /\ attempt = 0
    /\ fetch = NoFetch
    /\ balance = 0
    /\ txs = << >>
    /\ output_lines = << >>
    /\ sent = << >>
    /\ raised = FALSE
    /\ fetched = << >>
    /\ faults = 0
    /\ BotIdle

(* Mutant: the batch is not cut *)
BatchOf_Uncut(list) == list

(* The addresses a batch evaluates: the slice [:15] *)
BatchOf(list) == Slice(list, 0, MAX_NODES)

(* The start of a batch handler, up to the first fetch *)
StartBatch(name, emptyText) ==
    /\ handler' = name
    /\ IF GetAddressesForChat = << >>
       THEN /\ sent' = Append(sent, Message(emptyText, << >>))
            /\ pc' = "done"
            /\ UNCHANGED << addresses, idx >>
       ELSE /\ addresses' = BatchOf(GetAddressesForChat)
            /\ idx' = 1
            /\ pc' = "balance"
            /\ UNCHANGED sent
    /\ UNCHANGED << data, attempt, fetch, balance, txs, output_lines, raised,
                    fetched, faults >>
    /\ UNCHANGED botVars

menu_check_status ==
    /\ pc = "idle"
    /\ StartBatch("menu_check_status", "No addresses registered")

auto_update ==
    /\ pc = "idle"
    /\ StartBatch("auto_update", "No addresses found")

(* Mutant: the balance request is not awaited: after a failed attempt the *)
(* handler goes on to the transactions while the balance fetch is pending *)
safe_fetch_balance_Detached ==
    /\ pc = "balance"
    /\ \E p \in BalancePayloads :
        LET o == BalanceOutcome(p)
            wallet == Wallet(addresses[idx])
        IN  /\ MayAnswer(p, NominalBalance)
            /\ fetch' = FetchAfter("balance", wallet, p, o, FETCH_DELAY)
            /\ faults' = FaultsAfter(p, NominalBalance)
            /\ fetched' = FetchedAfter("balance", wallet)
            /\ IF o.act = "raise"
               THEN /\ raised' = TRUE
                    /\ pc' = "done"
                    /\ UNCHANGED << attempt, balance >>
               ELSE /\ attempt' = 0
                    /\ balance' = IF o.act = "return" THEN o.value ELSE 0
                    /\ pc' = "transactions"
                    /\ UNCHANGED raised
    /\ UNCHANGED << data, handler, addresses, idx, txs, output_lines, sent >>
    /\ UNCHANGED botVars

(* One iteration of the loop of safe_fetch_balance(wallet, delay=2.0) *)
safe_fetch_balance ==
    /\ pc = "balance"
    /\ \E p \in BalancePayloads :
        LET o == BalanceOutcome(p)
            wallet == Wallet(addresses[idx])
        IN  /\ MayAnswer(p, NominalBalance)
            /\ fetch' = FetchAfter("balance", wallet, p, o, FETCH_DELAY)
            /\ faults' = FaultsAfter(p, NominalBalance)
            /\ fetched' = FetchedAfter("balance", wallet)
            /\ IF LoopContinues(o, attempt)
               THEN /\ attempt' = attempt + 1
                    /\ UNCHANGED << pc, balance, raised >>
               ELSE IF o.act = "raise"
               THEN /\ raised' = TRUE
                    /\ pc' = "done"
                    /\ UNCHANGED << attempt, balance >>
               ELSE /\ attempt' = 0
                    /\ balance' = o.value
                    /\ pc' = "transactions"
                    /\ UNCHANGED raised
    /\ UNCHANGED << data, handler, addresses, idx, txs, output_lines, sent >>
    /\ UNCHANGED botVars

(* One iteration of the loop of safe_fetch_transactions(wallet, delay=2.0) *)
safe_fetch_transactions ==
    /\ pc = "transactions"
    /\ \E p \in (IF handler = "alert_check" THEN AlertTxPayloads ELSE TxPayloads) :
        LET o == TransactionsOutcome(p)
            wallet == Wallet(addresses[idx])
        IN  /\ MayAnswer(p, NominalTxs)
            /\ fetch' = FetchAfter("transactions", wallet, p, o, FETCH_DELAY)
            /\ faults' = FaultsAfter(p, NominalTxs)
            /\ fetched' = FetchedAfter("transactions", wallet)
            /\ IF LoopContinues(o, attempt)
               THEN /\ attempt' = attempt + 1
                    /\ UNCHANGED << pc, txs, raised >>
               ELSE IF o.act = "raise"
               THEN /\ raised' = TRUE
                    /\ pc' = "done"
                    /\ UNCHANGED << attempt, txs >>
               ELSE /\ attempt' = 0
                    /\ txs' = o.value
                    /\ pc' = "report"
                    /\ UNCHANGED raised
    /\ UNCHANGED << data, handler, addresses, idx, balance, output_lines, sent >>
    /\ UNCHANGED botVars

Title == IF handler = "menu_check_status" THEN "Check Status" ELSE "Auto Update"

(* The rest of the loop body: the report of addresses[idx]; after the      *)
(* last address, the message that carries all reports. An exception        *)
(* raised here leaves the handler: nothing is sent to the chat.            *)
build_report ==
    /\ pc = "report"
    /\ handler \in {"menu_check_status", "auto_update"}
    /\ IF ReportRaises(txs)
       THEN /\ raised' = TRUE
            /\ pc' = "done"
            /\ UNCHANGED << output_lines, idx, sent >>
       ELSE /\ output_lines' = Append(output_lines, Report(addresses[idx], balance, txs))
            /\ UNCHANGED raised
            /\ IF idx < Len(addresses)
               THEN /\ idx' = idx + 1
                    /\ pc' = "balance"
                    /\ UNCHANGED sent
               ELSE /\ sent' = Append(sent, Message(Title, output_lines'))
                    /\ pc' = "done"
                    /\ UNCHANGED idx
    /\ UNCHANGED << data, handler, addresses, attempt, fetch, balance, txs,
                    fetched, faults >>
    /\ UNCHANGED botVars

-----------------------------------------------------------------------------
(* alert_check, the job of Enable Alerts *)

(* time_diff > timedelta(minutes=15) *)
IsQuiet(list) == Now - LastTxTime(list) > QUIET_SECS

(* alert_check raises on this list: int(txs[0]['timeStamp']), or tx.get on *)
(* a record that is no dict                                                *)
AlertRaises(list) ==
    list # << >> /\ (StampRaises(list) \/ StallCondition(list) = "raise")

(* The lines of the alert for a list, none if no alert is due *)
AlertLines(list) ==
    IF list = << >> THEN << "No transactions found" >>
    ELSE (IF IsQuiet(list) THEN << "No transactions in the last 15 minutes" >> ELSE << >>)
            \o (IF StallCondition(list) = "true" THEN << "Node stall detected" >> ELSE << >>)

Alert(item, lines) == [text |-> "Alert", wallet |-> item.address, label |-> item.label,
                       lines |-> lines]

(* The start of the job, up to the first fetch *)
alert_check ==
    /\ pc = "idle"
    /\ handler' = "alert_check"
    /\ addresses' = BatchOf(GetAddressesForChat)
    /\ IF addresses' = << >>
       THEN pc' = "done" /\ UNCHANGED idx
       ELSE pc' = "transactions" /\ idx' = 1
    /\ UNCHANGED << data, attempt, fetch, balance, txs, output_lines, sent, raised,
                    fetched, faults >>
    /\ UNCHANGED botVars

(* The rest of the loop body: the alert for addresses[idx], if one is due *)
alert_report ==
    /\ pc = "report"
    /\ handler = "alert_check"
    /\ IF AlertRaises(txs)
       THEN /\ raised' = TRUE
            /\ pc' = "done"
            /\ UNCHANGED << idx, sent >>
       ELSE /\ sent' = IF AlertLines(txs) # << >>
                       THEN Append(sent, Alert(addresses[idx], AlertLines(txs)))
                       ELSE sent
            /\ UNCHANGED raised
            /\ IF idx < Len(addresses)
               THEN idx' = idx + 1 /\ pc' = "transactions"
               ELSE pc' = "done" /\ UNCHANGED idx
    /\ UNCHANGED << data, handler, addresses, attempt, fetch, balance, txs,
                    output_lines, fetched, faults >>
    /\ UNCHANGED botVars

AlertNext ==
    \/ alert_check
    \/ safe_fetch_transactions
    \/ alert_report

SpecAlert == Init /\ [][AlertNext]_vars

Next ==
    \/ menu_check_status
    \/ auto_update
    \/ safe_fetch_balance
    \/ safe_fetch_transactions
    \/ build_report

Spec == Init /\ [][Next]_vars

-----------------------------------------------------------------------------
(* The report of one transaction list: the state right after               *)
(* safe_fetch_transactions returned `txs` for the only address of a chat.  *)

PingUpperOk == Tx(Present(StampOffline), Present(<< "0" >>), Present(HeartbeatUpper))

PingFailed == Tx(Present(StampOnline), Present(<< "1" >>), Present(HEARTBEAT))

BaseTxs == { PingOk, PingUpperOk, CommitOk, PingFailed }

OtherTxs ==
    BaseTxs \cup
    { NonDict, NoStamp, CommitFailed,
      Tx(Present(StampBad), Present(<< "0" >>), Present(HEARTBEAT)),
      Tx(Present(StampOnline), Absent, Present(HEARTBEAT)),
      Tx(Present(StampOnline), Present(<< "0" >>), Absent),
      Tx(Present(StampOnline), Present(<< "0" >>), Present(ShortInput)) }

(* n transactions p, the one at position j (if any) replaced by q *)
Pattern(n, p, q, j) == [i \in 1..n |-> IF i = j THEN q ELSE p]

WindowLens == (0..MaxLen) \cup {30, PAGE_SIZE}

(* What safe_fetch_transactions can return: [] or a list that starts with a dict *)
WindowLists ==
    { l \in { Pattern(n, p, q, j) : n \in WindowLens, p \in BaseTxs, q \in OtherTxs, j \in 0..PAGE_SIZE } :
        l = << >> \/ l[1].dict }

WindowInit ==
    /\ data = StoredList(1)
    /\ pc = "report"
    /\ handler \in {"menu_check_status", "auto_update"}
    /\ addresses = BatchOf(data)
    /\ idx = 1
    /\ attempt = 0
    /\ txs \in WindowLists
    /\ fetch = [fn |-> "transactions", wallet |-> Wallet(data[1]),
                delay |-> FETCH_DELAY, running |-> FALSE,
                events |-> << Call(0, ListPayload(txs), "return") >>]
    /\ balance = 5
    /\ output_lines = << >>
    /\ sent = << >>
    /\ raised = FALSE
    /\ fetched = << [fn |-> "balance", wallet |-> Wallet(data[1])],
                    [fn |-> "transactions", wallet |-> Wallet(data[1])] >>
    /\ faults = 0
    /\ BotIdle

WindowNext == build_report

SpecWindow == WindowInit /\ [][WindowNext]_vars

-----------------------------------------------------------------------------
(* The conversations Add Address and Remove Address. The dispatcher hands  *)
(* a text to the first conversation that takes it: conv_add when it is in  *)
(* ADD_ADDRESS or the text is its entry point, then conv_remove, then      *)
(* conv_interval.                                                          *)

Enter(chat_id, state) == [conv EXCEPT ![chat_id] = @ \cup {state}]

End(chat_id, state) == [conv EXCEPT ![chat_id] = @ \ {state}]

(* not wallet.startswith("0x") or len(wallet) != 42 *)
IsInvalidWallet(wallet) ==
    ~StartsWith(wallet, << "0", "x" >>) \/ Len(wallet) # ADDRESS_LEN

(* Mutant: only the first entry is compared *)
AlreadyExists_FirstOnly(list, wallet) == list # << >> /\ list[1].address = wallet

(* any(item address == wallet for item in addresses) *)
AlreadyExists(list, wallet) == \E i \in DOMAIN list : list[i].address = wallet

(* Mutant: the limit is tested one entry too late *)
IsFull_OneMore(list) == Len(list) > MAX_NODES

(* len(addresses) >= 15 *)
IsFull(list) == Len(list) >= MAX_NODES

add_address_start(chat_id) ==
    /\ "ADD_ADDRESS" \notin conv[chat_id]
    /\ conv' = Enter(chat_id, "ADD_ADDRESS")
    /\ event' = Event("add_address_start", chat_id, "prompt")
    /\ UNCHANGED << file, jobs, removals, written, batchVars >>

add_address_receive(chat_id, texts) ==
    /\ "ADD_ADDRESS" \in conv[chat_id]
    /\ \E text \in texts :
        LET wallet == AddressInputs[text].wallet
            label == AddressInputs[text].label
            list == get_addresses_for_chat(chat_id)
        IN  IF IsInvalidWallet(wallet)
            THEN /\ event' = TextEvent("add_address_receive", chat_id, "invalid", text)
                 /\ UNCHANGED << file, conv >>
            ELSE IF AlreadyExists(list, wallet)
            THEN /\ event' = TextEvent("add_address_receive", chat_id, "exists", text)
                 /\ conv' = End(chat_id, "ADD_ADDRESS")
                 /\ UNCHANGED file
            ELSE IF IsFull(list)
            THEN /\ event' = TextEvent("add_address_receive", chat_id, "maximum", text)
                 /\ conv' = End(chat_id, "ADD_ADDRESS")
                 /\ UNCHANGED file
            ELSE /\ file' = update_addresses_for_chat(chat_id,
                                Append(list, [address |-> wallet, label |-> label]))
                 /\ event' = TextEvent("add_address_receive", chat_id, "added", text)
                 /\ conv' = End(chat_id, "ADD_ADDRESS")
    /\ UNCHANGED << jobs, removals, written, batchVars >>

(* f"{wallet}" + (f" ({label})" if label else "") *)
Display(item) ==
    item.address \o (IF item.label # << >> THEN << " ", "(" >> \o item.label \o << ")" >>
                     ELSE << >>)

(* The first and the last button of the keyboard (while the model may     *)
(* remove), the button `Cancel`, and the address of a wallet without the   *)
(* label it is stored with                                                 *)
RemoveTexts(chat_id) ==
    LET list == get_addresses_for_chat(chat_id)
    IN  { Display(list[i]) : i \in {j \in DOMAIN list : removals < MaxRemovals /\ j \in {1, Len(list)}} }
        \cup { << "C", "a", "n", "c", "e", "l" >>, WalletTexts[2] }

(* Mutant: the loop stops at the chosen entry (break for continue) *)
new_addresses_UpToMatch(list, choice) ==
    IF \E i \in DOMAIN list : Display(list[i]) = choice
    THEN SubSeq(list, 1, SetMin({i \in DOMAIN list : Display(list[i]) = choice}) - 1)
    ELSE list

(* The entries the loop keeps: those whose display is not the choice *)
new_addresses(list, choice) == SelectSeq(list, LAMBDA item : Display(item) # choice)

remove_address_start(chat_id) ==
    /\ conv[chat_id] \cap {"ADD_ADDRESS", "REMOVE_ADDRESS"} = {}
    /\ IF get_addresses_for_chat(chat_id) = << >>
       THEN /\ event' = Event("remove_address_start", chat_id, "none")
            /\ UNCHANGED conv
       ELSE /\ event' = Event("remove_address_start", chat_id, "prompt")
            /\ conv' = Enter(chat_id, "REMOVE_ADDRESS")
    /\ UNCHANGED << file, jobs, removals, written, batchVars >>

remove_address_receive(chat_id, texts) ==
    /\ "REMOVE_ADDRESS" \in conv[chat_id]
    /\ "ADD_ADDRESS" \notin conv[chat_id]
    /\ \E text \in texts :
        LET choice == Strip(text)
            list == get_addresses_for_chat(chat_id)
            found == \E i \in DOMAIN list : Display(list[i]) = choice
        IN  IF Lower(choice) = << "c", "a", "n", "c", "e", "l" >>
            THEN /\ event' = TextEvent("remove_address_receive", chat_id, "cancelled", text)
                 /\ UNCHANGED << file, removals >>
            ELSE IF ~found
            THEN /\ event' = TextEvent("remove_address_receive", chat_id, "not found", text)
                 /\ UNCHANGED << file, removals >>
            ELSE /\ file' = update_addresses_for_chat(chat_id, new_addresses(list, choice))
                 /\ event' = TextEvent("remove_address_receive", chat_id, "removed", text)
                 /\ removals' = removals + 1
    /\ conv' = End(chat_id, "REMOVE_ADDRESS")
    /\ UNCHANGED << jobs, written, batchVars >>

(* The texts the spelling chat sends to Remove Address: every button of    *)
(* the keyboard, as it is and with blanks around it (while the model may   *)
(* remove), `Cancel` in three spellings, the address of a wallet without   *)
(* the label it is stored with, and an address in upper case.              *)
ChoiceTexts(chat_id) ==
    LET list == get_addresses_for_chat(chat_id)
        buttons == { Display(list[i]) : i \in {j \in DOMAIN list : removals <= MaxRemovals} }
    IN  buttons
        \cup { << " " >> \o b \o << " " >> : b \in buttons }
        \cup { << "C", "a", "n", "c", "e", "l" >>, << " ", "c", "a", "n", "c", "e", "l" >>,
               << "C", "A", "N", "C", "E", "L" >>,
               WalletTexts[2], WalletText(1, TRUE) }

StoreInit == BatchIdle /\ BotIdle

StoreNext ==
    \E chat_id \in Chats :
        \/ add_address_start(chat_id)
        \/ add_address_receive(chat_id, AddTexts(chat_id))
        \/ remove_address_start(chat_id)
        \/ remove_address_receive(chat_id, RemoveTexts(chat_id))

SpecStore == StoreInit /\ [][StoreNext]_vars

(* One chat that adds a few wallets in any order and spelling and removes  *)
(* any of them, from the empty data.json                                   *)
ChoiceNext ==
    \E chat_id \in {2} :
        \/ add_address_start(chat_id)
        \/ add_address_receive(chat_id, SpelledTexts(chat_id))
        \/ remove_address_start(chat_id)
        \/ remove_address_receive(chat_id, ChoiceTexts(chat_id))

SpecChoice == StoreInit /\ [][ChoiceNext]_vars

-----------------------------------------------------------------------------
(* The conversation Set Delay *)

(* float(s) on a stripped text: digits with at most one decimal place and  *)
(* an optional sign, or nan, or inf; every other text raises ValueError.   *)
FloatOf(s) ==
    LET NotANumber == [kind |-> "nan", tenths |-> 0]
        Infinity == [kind |-> "inf", tenths |-> 0]
        Whole(u) == IF "." \in {u[i] : i \in DOMAIN u} THEN SubSeq(u, 1, Len(u) - 2) ELSE u
        unsigned == IF s # << >> /\ s[1] \in {"-", "+"} THEN Tail(s) ELSE s
        sign == IF s # << >> /\ s[1] = "-" THEN -1 ELSE 1
        tenth == IF Whole(unsigned) = unsigned THEN << "0" >> ELSE << unsigned[Len(unsigned)] >>
    IN  IF Lower(unsigned) = << "n", "a", "n" >> THEN [ok |-> TRUE, value |-> NotANumber]
        ELSE IF Lower(unsigned) = << "i", "n", "f" >> /\ sign = 1
        THEN [ok |-> TRUE, value |-> Infinity]
        ELSE IF /\ IsIntString(Whole(unsigned)) /\ IsIntString(tenth)
                /\ (Whole(unsigned) = unsigned \/ unsigned[Len(unsigned) - 1] = ".")
        THEN [ok |-> TRUE,
              value |-> Finite(sign * (10 * ParseInt(Whole(unsigned)) + ParseInt(tenth)))]
        ELSE [ok |-> FALSE, value |-> NotANumber]

(* Mutant: only a negative interval is refused *)
IsBelowMinimum_Negative(value) == value.kind = "finite" /\ value.tenths < 0

(* interval_val < MIN_AUTO_UPDATE_INTERVAL: false for nan and for inf *)
IsBelowMinimum(value) ==
    value.kind = "finite" /\ value.tenths < 10 * MIN_AUTO_UPDATE_INTERVAL

IntervalTexts ==
    { << "5", "9" >>, << "6", "0" >>, << " ", "6", "1", " " >>, << "5", "9", ".", "9" >>,
      << "6", "0", ".", "5" >>, << "-", "5" >>, << "0" >>, << "a", "b", "c" >>,
      << "6", " ", "0" >>, << "1", ",", "5" >>, << "n", "a", "n" >>, << "i", "n", "f" >> }

set_interval_start(chat_id) ==
    /\ conv[chat_id] = {}
    /\ conv' = Enter(chat_id, "SET_INTERVAL")
    /\ event' = Event("set_interval_start", chat_id, "prompt")
    /\ UNCHANGED << file, jobs, removals, written, batchVars >>

set_interval_receive(chat_id) ==
    /\ conv[chat_id] = {"SET_INTERVAL"}
    /\ \E text \in IntervalTexts :
        LET parsed == FloatOf(Strip(text))
        IN  IF ~parsed.ok
            THEN /\ event' = TextEvent("set_interval_receive", chat_id, "invalid", text)
                 /\ UNCHANGED << file, conv >>
            ELSE IF IsBelowMinimum(parsed.value)
            THEN /\ event' = TextEvent("set_interval_receive", chat_id, "below", text)
                 /\ UNCHANGED << file, conv >>
            ELSE /\ file' = update_auto_update_interval(chat_id, parsed.value)
                 /\ event' = TextEvent("set_interval_receive", chat_id, "set", text)
                 /\ conv' = End(chat_id, "SET_INTERVAL")
    /\ UNCHANGED << jobs, removals, written, batchVars >>

(* data.json as the bot leaves it: empty, or written by an Add Address of  *)
(* chat 1 (one address, the default interval)                              *)
FileOfOneAddress ==
    [c \in {1} |-> [addresses |-> << [address |-> WalletTexts[1], label |-> << >>] >>,
                    auto_update_interval |-> Finite(10 * DEFAULT_UPDATE_INTERVAL)]]

IntervalInit ==
    /\ BatchIdle
    /\ file \in {EmptyFile, FileOfOneAddress}
    /\ conv = [c \in Chats |-> {}]
    /\ jobs = << >>
    /\ event = NoEvent
    /\ removals = 0
    /\ written = file

IntervalNext ==
    \E chat_id \in Chats :
        \/ set_interval_start(chat_id)
        \/ set_interval_receive(chat_id)

SpecInterval == IntervalInit /\ [][IntervalNext]_vars

-----------------------------------------------------------------------------
(* The job queue: Auto Update, Enable Alerts, Stop, and the runs of the    *)
(* jobs. A job is removed from the queue at once by schedule_removal.      *)

(* f"auto_update_{chat_id}", f"alert_{chat_id}" *)
JobName(prefix, chat_id) == [prefix |-> prefix, chat |-> chat_id]

Job(callback, interval, chat_id, name) ==
    [callback |-> callback, interval |-> interval, chat |-> chat_id, name |-> name]

(* job_queue.get_jobs_by_name(name) *)
get_jobs_by_name(name) == SelectSeq(jobs, LAMBDA j : j.name = name)

(* Mutant: the test for a job of this name never finds one *)
IsActive_Never(name) == FALSE

(* `if current_jobs:` *)
IsActive(name) == get_jobs_by_name(name) # << >>

(* Mutant: Stop removes the auto-update job only *)
JobsAfterStop_AutoOnly(chat_id) ==
    SelectSeq(jobs, LAMBDA j : j.name # JobName("auto_update", chat_id))

(* The queue after schedule_removal() on every job of the two names *)
JobsAfterStop(chat_id) ==
    SelectSeq(jobs, LAMBDA j :
        j.name \notin {JobName("auto_update", chat_id), JobName("alert", chat_id)})

(* The common course of the two start commands *)
StartJob(op, chat_id, callback, interval, name) ==
    /\ IF get_addresses_for_chat(chat_id) = << >>
       THEN /\ event' = Event(op, chat_id, "no addresses")
            /\ UNCHANGED jobs
       ELSE IF IsActive(name)
       THEN /\ event' = Event(op, chat_id, "already active")
            /\ UNCHANGED jobs
       ELSE /\ jobs' = Append(jobs, Job(callback, interval, chat_id, name))
            /\ event' = Event(op, chat_id, "started")
    /\ UNCHANGED << file, conv, removals, written, batchVars >>

menu_auto_update(chat_id) ==
    /\ chat_id \in Chats
    /\ StartJob("menu_auto_update", chat_id, "auto_update",
                get_auto_update_interval(chat_id), JobName("auto_update", chat_id))

menu_enable_alerts(chat_id) ==
    /\ chat_id \in Chats
    /\ StartJob("menu_enable_alerts", chat_id, "alert_check",
                Finite(10 * ALERT_INTERVAL), JobName("alert", chat_id))

menu_stop(chat_id) ==
    /\ jobs' = JobsAfterStop(chat_id)
    /\ event' = Event("menu_stop", chat_id,
                      IF Len(jobs') < Len(jobs) THEN "stopped" ELSE "no jobs")
    /\ UNCHANGED << file, conv, removals, written, batchVars >>

(* The job queue runs a job: its callback is called for the job's chat *)
run_job(i) ==
    /\ i \in DOMAIN jobs
    /\ event' = Event(jobs[i].callback, jobs[i].chat, "run")
    /\ UNCHANGED << file, conv, jobs, removals, written, batchVars >>

(* What data.json may hold for a chat when the bot starts *)
ChatDatas ==
    { [addresses |-> l, auto_update_interval |-> v] :
        l \in { << >>, << [address |-> WalletTexts[1], label |-> << >>] >> },
        v \in { Finite(10 * DEFAULT_UPDATE_INTERVAL), Finite(10 * MIN_AUTO_UPDATE_INTERVAL) } }

JobsInit ==
    /\ BatchIdle
    /\ file \in {EmptyFile, FileOfOneAddress} \cup [Chats -> ChatDatas]
    /\ conv = [c \in Chats |-> {}]
    /\ jobs = << >>
    /\ event = NoEvent
    /\ removals = 0
    /\ written = file

JobsNext ==
    \/ \E chat_id \in Chats :
          \/ menu_auto_update(chat_id)
          \/ menu_enable_alerts(chat_id)
          \/ menu_stop(chat_id)
    \/ \E i \in 1..Len(jobs) : run_job(i)

SpecJobs == JobsInit /\ [][JobsNext]_vars

-----------------------------------------------------------------------------
(* A job of the job queue that runs while the dispatcher handles Add       *)
(* Address and Remove Address of the same chat. The callbacks of the job   *)
(* queue run in threads of their own; data.json is what they share with    *)
(* the dispatcher, and save_data rewrites it in place.                     *)

(* load_data() in a thread of the job queue: while the dispatcher is       *)
(* inside save_data the file is empty or cut short, json.load raises and   *)
(* the `except` branch returns {}                                          *)
load_data == IF written = file THEN file ELSE EmptyFile

(* The job queue calls the callback of job i: auto_update or alert_check   *)
(* up to its first fetch                                                   *)
job_callback(i) ==
    /\ i \in DOMAIN jobs
    /\ pc = "idle"
    /\ LET chat_id == jobs[i].chat
           chat_data == IF chat_id \in DOMAIN load_data THEN load_data[chat_id]
                        ELSE DefaultChatData
           list == BatchOf(chat_data.addresses)
       IN  /\ handler' = jobs[i].callback
           /\ addresses' = list
           /\ event' = Event(jobs[i].callback, chat_id, "run")
           /\ IF list = << >>
              THEN /\ sent' = IF jobs[i].callback = "auto_update"
                              THEN Append(sent, Message("No addresses found", << >>))
                              ELSE sent
                   /\ pc' = "done"
                   /\ UNCHANGED idx
              ELSE /\ idx' = 1
                   /\ pc' = IF jobs[i].callback = "auto_update" THEN "balance"
                            ELSE "transactions"
                   /\ UNCHANGED sent
    /\ UNCHANGED << data, attempt, fetch, balance, txs, output_lines, raised,
                    fetched, faults >>
    /\ UNCHANGED << file, conv, jobs, removals, written >>

(* The dispatcher leaves the `with` block of save_data: the new content is *)
(* written out in full                                                     *)
save_data ==
    /\ written # file
    /\ written' = file
    /\ UNCHANGED << file, conv, jobs, event, removals, batchVars >>

(* Chat 2 stores wallet 1 and has started Auto Update and Enable Alerts *)
RaceInit ==
    /\ BatchIdle
    /\ file = [c \in {2} |-> FileOfOneAddress[1]]
    /\ conv = [c \in Chats |-> {}]
    /\ jobs = << Job("auto_update", get_auto_update_interval(2), 2, JobName("auto_update", 2)),
                 Job("alert_check", Finite(10 * ALERT_INTERVAL), 2, JobName("alert", 2)) >>
    /\ event = NoEvent
    /\ removals = 0
    /\ written = file

RaceNext ==
    \/ \E chat_id \in {2} :
          /\ written = file
          /\ \/ add_address_start(chat_id)
             \/ add_address_receive(chat_id, AddTexts(chat_id))
             \/ remove_address_start(chat_id)
             \/ remove_address_receive(chat_id, RemoveTexts(chat_id))
    \/ save_data
    \/ \E i \in DOMAIN jobs : job_callback(i)
    \/ safe_fetch_balance
    \/ safe_fetch_transactions
    \/ build_report
    \/ alert_report

SpecRace == RaceInit /\ [][RaceNext]_vars

-----------------------------------------------------------------------------
(* Properties of the fetches *)

CallsOf(ev) == {i \in 1..Len(ev) : ev[i].e = "call"}

SleepsOf(ev) == {i \in 1..Len(ev) : ev[i].e = "sleep"}

(* The answer to the last request of the fetch *)
LastAnswer == fetch.events[SetMax(CallsOf(fetch.events))].p

IsRateLimitAnswer(p) == p.t = "str" /\ Contains(p.s, RATE_LIMIT_TEXT)

IsBalanceAnswer(p) == (p.t = "str" /\ IsIntString(p.s)) \/ p.t = "num"

IsTransactionsAnswer(p) == p.t = "list" /\ p.l # << >> /\ p.l[1].dict

(* safe_fetch_balance has returned and its result is in `balance` *)
BalanceReturned == fetch.fn = "balance" /\ ~fetch.running /\ ~raised

(* safe_fetch_transactions has returned and its result is in `txs` *)
TransactionsReturned == fetch.fn = "transactions" /\ ~fetch.running

(* C1: a fetch makes at most 3 requests, whatever the provider answers:    *)
(* after its third request it has returned, so that no mix of exceptions   *)
(* and rate-limit answers leads to a fourth.                               *)
C1_AtMostThreeAttempts ==
    /\ Cardinality(CallsOf(fetch.events)) <= 3
    /\ fetch.running => Cardinality(CallsOf(fetch.events)) < 3
    /\ attempt < 3

(* A fetch that ended after three requests, one answered by an exception   *)
(* and one by the rate-limit message.                                      *)
C1_Witness ==
    /\ fetch.fn # "none" /\ ~fetch.running
    /\ Cardinality(CallsOf(fetch.events)) = 3
    /\ \E i, j \in CallsOf(fetch.events) :
          fetch.events[i].p.t = "exc" /\ IsRateLimitAnswer(fetch.events[j].p)

(* C2: no exception leaves a fetch: an exception that leaves the handler   *)
(* comes from the code that builds the report. A fetch whose last request  *)
(* did not get a usable answer (retries exhausted, or an answer it gives   *)
(* up on) returns the neutral value, 0.0 or [].                            *)
C2_FetchAbsorbsErrors ==
    /\ raised => pc = "done" /\ TransactionsReturned /\ ReportRaises(txs)
    /\ BalanceReturned /\ ~IsBalanceAnswer(LastAnswer) => balance = 0
    /\ TransactionsReturned /\ ~IsTransactionsAnswer(LastAnswer) => txs = << >>

(* A balance fetch that used up its three requests on failures (one of     *)
(* them a null result) and handed 0.0 to its caller.                       *)
C2_Witness ==
    /\ BalanceReturned
    /\ Cardinality(CallsOf(fetch.events)) = 3
    /\ \A i \in CallsOf(fetch.events) : ~IsBalanceAnswer(fetch.events[i].p)
    /\ \E i \in CallsOf(fetch.events) : fetch.events[i].p.t = "null"
    /\ balance = 0
    /\ pc = "transactions"

(* An answer that is neither usable nor the rate-limit message, in the     *)
(* words of C3                                                             *)
IsUnexpectedAnswer(fn, p) ==
    /\ p.t # "exc"
    /\ ~IsRateLimitAnswer(p)
    /\ IF fn = "balance" THEN ~(p.t = "str" /\ IsIntString(p.s))
                         ELSE ~IsTransactionsAnswer(p)

(* C3: an attempt that receives an unexpected answer other than the        *)
(* rate-limit message ends the fetch at once with the neutral value: the   *)
(* request is the last event of the fetch, no sleep and no request follow. *)
C3_UnexpectedFailsFast ==
    \A i \in CallsOf(fetch.events) :
        IsUnexpectedAnswer(fetch.fn, fetch.events[i].p) =>
            /\ i = Len(fetch.events)
            /\ ~fetch.running
            /\ fetch.fn = "balance" => balance = 0
            /\ fetch.fn = "transactions" => txs = << >>

(* The sleep the code is to make after a failed attempt *)
SleepIsExact(ev, i) ==
    /\ i > 1
    /\ ev[i - 1].e = "call"
    /\ ev[i - 1].attempt = ev[i].attempt
    /\ ev[i].secs = IF IsRateLimitAnswer(ev[i].p)
                    THEN 2 * (ev[i].attempt + 1) * 2
                    ELSE 2 * (ev[i].attempt + 1)
    /\ i < Len(ev) => ev[i + 1].e = "call"

FailedCallSleeps(ev, i) ==
    (ev[i].p.t = "exc" \/ IsRateLimitAnswer(ev[i].p)) =>
        i < Len(ev) /\ ev[i + 1].e = "sleep"

(* C4 as stated: the exact sleeps, and a sleep that grows strictly with    *)
(* the attempt index within one fetch.                                     *)
C4_SleepGrowsStrictly ==
    LET ev == fetch.events
    IN  /\ \A i \in SleepsOf(ev) : SleepIsExact(ev, i)
        /\ \A i \in CallsOf(ev) : FailedCallSleeps(ev, i)
        /\ \A i, j \in SleepsOf(ev) : i < j => ev[i].secs < ev[j].secs

(* C4, amended: after a failed attempt i the fetch sleeps exactly          *)
(* delay*(i+1) on an exception and delay*(i+1)*2, and nothing more, on     *)
(* the rate-limit message; the sleep grows strictly with the attempt       *)
(* index among failures of the same kind.                                  *)
C4_SleepAmounts ==
    LET ev == fetch.events
    IN  /\ \A i \in SleepsOf(ev) : SleepIsExact(ev, i)
        /\ \A i \in CallsOf(ev) : FailedCallSleeps(ev, i)
        /\ \A i, j \in SleepsOf(ev) :
              i < j /\ IsRateLimitAnswer(ev[i].p) = IsRateLimitAnswer(ev[j].p)
                  => ev[i].secs < ev[j].secs

(* A fetch that slept 8 s after a rate-limit answer to attempt 1 and then  *)
(* 6 s after an exception in attempt 2.                                    *)
C4_Witness ==
    \E i, j \in SleepsOf(fetch.events) :
        /\ i < j
        /\ IsRateLimitAnswer(fetch.events[i].p) /\ fetch.events[i].secs = 8
        /\ fetch.events[j].p.t = "exc" /\ fetch.events[j].secs = 6

-----------------------------------------------------------------------------
(* Properties of the batch *)

(* C5: no address aborts a batch: no exception leaves the handler, and a   *)
(* finished batch has sent a report for every address it covers.           *)
C5_BatchNeverAborted ==
    /\ ~raised
    /\ pc = "done" /\ data # << >> =>
          /\ Len(sent) = 1
          /\ Len(sent[1].reports) = Min(Len(data), 15)

(* C6: a batch that completes reports the first 15 stored addresses, one   *)
(* report each, in the stored order, and no fetch is ever made for an      *)
(* address beyond the 15th.                                                *)
C6_OneReportPerAddressInOrder ==
    /\ \A i \in 1..Len(fetched) :
          \E k \in 1..Min(Len(data), 15) : fetched[i].wallet = data[k].address
    /\ pc = "done" /\ ~raised /\ data # << >> =>
          /\ Len(sent) = 1
          /\ Len(sent[1].reports) = Min(Len(data), 15)
          /\ \A k \in 1..Len(sent[1].reports) :
                /\ sent[1].reports[k].wallet = data[k].address
                /\ sent[1].reports[k].label = data[k].label
                /\ fetched[2 * k - 1] = [fn |-> "balance", wallet |-> data[k].address]
                /\ fetched[2 * k] = [fn |-> "transactions", wallet |-> data[k].address]
          /\ Len(fetched) = 2 * Len(sent[1].reports)
          /\ \A k, m \in 1..Len(sent[1].reports) :
                k # m => sent[1].reports[k].wallet # sent[1].reports[m].wallet

(* A completed batch of a chat that stores 16 addresses: 15 reports *)
C6_Witness ==
    /\ pc = "done" /\ ~raised
    /\ Len(data) = 16
    /\ Len(sent) = 1
    /\ Len(sent[1].reports) = 15

-----------------------------------------------------------------------------
(* Properties of the report of one transaction list *)

(* The last entry of output_lines is the report of `txs` *)
Reported ==
    /\ pc # "report"
    /\ TransactionsReturned
    /\ ~raised
    /\ output_lines # << >>

LastReport == output_lines[Len(output_lines)]

SelectorLetters ==
    << {"0"}, {"x", "X"}, {"5"}, {"c", "C"}, {"3"}, {"6"}, {"b", "B"}, {"1"}, {"8"}, {"6"} >>

(* The input data of tx starts with 0x5c36b186 in some letter case *)
HasHeartbeatSelector(tx) ==
    /\ tx.dict
    /\ Len(tx.input) = 1
    /\ Len(tx.input[1]) >= 10
    /\ \A k \in 1..10 : tx.input[1][k] \in SelectorLetters[k]

AllHeartbeats(list, n) ==
    Len(list) >= n /\ \A i \in 1..n : HasHeartbeatSelector(list[i])

(* C7: the report says Stalled exactly when the list has at least 25       *)
(* transactions and each of the first 25 carries the heartbeat selector,   *)
(* in any letter case; later transactions have no influence.               *)
C7_StalledIffWindowAllHeartbeats ==
    Reported =>
        (LastReport.stall_status = "Node Stall" <=> AllHeartbeats(txs, 25))

(* 30 transactions, the first 25 heartbeats written in upper case, a       *)
(* commit after the 25th: Stalled.                                         *)
C7_Witness ==
    /\ Reported
    /\ Len(txs) = 30
    /\ LastReport.stall_status = "Node Stall"
    /\ txs[1].input[1][2] = "X"
    /\ \E i \in 26..30 : ~HasHeartbeatSelector(txs[i])

(* C8 as stated: Normal for every list of fewer than 25 transactions, the  *)
(* empty list included; Stalled for exactly 25 heartbeats.                 *)
C8_NormalBelowWindow ==
    Reported =>
        /\ Len(txs) < 25 => LastReport.stall_status = "Normal"
        /\ Len(txs) = 25 /\ AllHeartbeats(txs, 25) => LastReport.stall_status = "Node Stall"

(* C8, amended: Normal for every non-empty list of fewer than 25           *)
(* transactions (so for 24 heartbeats), Stalled for exactly 25             *)
(* heartbeats; for the empty list the stall status is N/A.                 *)
C8_NormalBelowWindowNonEmpty ==
    Reported =>
        /\ 0 < Len(txs) /\ Len(txs) < 25 => LastReport.stall_status = "Normal"
        /\ Len(txs) = 25 /\ AllHeartbeats(txs, 25) => LastReport.stall_status = "Node Stall"
        /\ Len(txs) = 0 => LastReport.stall_status = "N/A"

(* Exactly 24 heartbeats: Normal *)
C8_Witness ==
    /\ Reported
    /\ Len(txs) = 24
    /\ AllHeartbeats(txs, 24)
    /\ LastReport.stall_status = "Normal"

Glyphs == {"green", "red", "white"}

(* C9 as stated: the strip has exactly 5 entries, each Healthy, Unhealthy  *)
(* or Empty, for every list length, 0 included.                            *)
C9_StripHasFiveGroups ==
    Reported =>
        /\ Len(LastReport.health_status) = 5
        /\ \A g \in 1..Len(LastReport.health_status) : LastReport.health_status[g] \in Glyphs

(* C9, amended: for every non-empty list the strip has exactly 5 entries,  *)
(* each Healthy, Unhealthy or Empty, the groups beyond the data being      *)
(* Empty; for the empty list the report holds the text "No transactions"   *)
(* in place of a strip.                                                    *)
C9_StripHasFiveGroupsNonEmpty ==
    Reported =>
        /\ txs # << >> =>
              /\ Len(LastReport.health_status) = 5
              /\ \A g \in 1..5 :
                    /\ LastReport.health_status[g] \in Glyphs
                    /\ 5 * (g - 1) >= Len(txs) => LastReport.health_status[g] = "white"
        /\ txs = << >> => LastReport.health_status = << "No transactions" >>

(* 3 transactions: one group judged, four padded *)
C9_Witness ==
    /\ Reported
    /\ Len(txs) = 3
    /\ Len(LastReport.health_status) = 5
    /\ LastReport.health_status[1] # "white"
    /\ \A g \in 2..5 : LastReport.health_status[g] = "white"

(* The positions of the first 25 transactions that fall in group g (0..4) *)
GroupMembers(list, g) ==
    {i \in 1..Len(list) : i <= 25 /\ 5 * g < i /\ i <= 5 * g + 5}

(* C10: for a non-empty list, group g of the strip is Empty iff none of    *)
(* the first 25 transactions falls in 5g..5g+4, Healthy iff it has one     *)
(* and all of them have isError = "0", Unhealthy otherwise.                *)
C10_GroupVerdicts ==
    Reported /\ txs # << >> =>
        \A g \in 0..4 :
            LastReport.health_status[g + 1] =
                IF GroupMembers(txs, g) = {} THEN "white"
                ELSE IF \A i \in GroupMembers(txs, g) : txs[i].isError = << << "0" >> >>
                     THEN "green" ELSE "red"

(* 7 transactions of which only the 7th failed: the short second group is  *)
(* Unhealthy, the first Healthy, the rest Empty.                           *)
C10_Witness ==
    /\ Reported
    /\ Len(txs) = 7
    /\ txs[6].isError = << << "0" >> >>
    /\ LastReport.health_status = << "green", "red", "white", "white", "white" >>

(* The decimal value of a time stamp of at most three digits *)
StampValue(s) ==
    IF Len(s) = 3 THEN 100 * DigitVal(s[1]) + 10 * DigitVal(s[2]) + DigitVal(s[3])
    ELSE IF Len(s) = 2 THEN 10 * DigitVal(s[1]) + DigitVal(s[2])
    ELSE DigitVal(s[1])

(* C11: the report says Online exactly when the list is non-empty and its  *)
(* first transaction is at most 300 s old (300 s itself is Online), and    *)
(* Offline otherwise, the empty list included; neither the stall status    *)
(* nor any transaction after the first has an influence.                   *)
C11_OnlineIffNewestWithinFiveMinutes ==
    Reported =>
        /\ LastReport.status \in {"Online", "Offline"}
        /\ LastReport.status = "Online" <=>
              (txs # << >> /\ 1000 - StampValue(txs[1].timeStamp[1]) <= 300)

(* 30 transactions, the first exactly 300 s old and every other one older, *)
(* the first 25 all heartbeats: Online and Stalled.                        *)
C11_Witness ==
    /\ Reported
    /\ Len(txs) = 30
    /\ txs[1].timeStamp = << << "7", "0", "0" >> >>
    /\ \A i \in 2..30 : txs[i].timeStamp = << << "6", "9", "9" >> >>
    /\ LastReport.status = "Online"
    /\ LastReport.stall_status = "Node Stall"

-----------------------------------------------------------------------------
(* Properties of the order of the requests *)

(* The fetch the k-th entry of `fetched` has to be: balance, then          *)
(* transactions, of address 1, then of address 2, ...                      *)
PipelineEntry(k) ==
    [fn |-> IF k % 2 = 1 THEN "balance" ELSE "transactions",
     wallet |-> data[(k + 1) \div 2].address]

(* C12: a batch is one sequential pipeline. A fetch that is under way is   *)
(* the one the handler waits in; the transactions fetch of an address      *)
(* starts only after its balance fetch, retries and sleeps included, has   *)
(* returned, and the balance fetch of the next address only after the      *)
(* transactions fetch and the report of this one; so the fetches start in  *)
(* the order balance 1, transactions 1, balance 2, ...                     *)
C12_OneSequentialPipeline ==
    /\ fetch.running => pc = fetch.fn /\ attempt > 0
    /\ pc = "transactions" /\ attempt = 0 =>
          fetch.fn = "balance" /\ ~fetch.running /\ fetch.wallet = data[idx].address
    /\ pc = "report" => fetch.fn = "transactions" /\ ~fetch.running
    /\ pc = "balance" /\ attempt = 0 /\ idx > 1 =>
          fetch.fn = "transactions" /\ ~fetch.running /\ fetch.wallet = data[idx - 1].address
    /\ \A k \in 1..Len(fetched) : fetched[k] = PipelineEntry(k)
    /\ pc = "transactions" => Len(fetched) = 2 * idx - (IF attempt = 0 THEN 1 ELSE 0)
    /\ pc = "balance" => Len(fetched) = 2 * idx - (IF attempt = 0 THEN 2 ELSE 1)

(* The balance fetch of the second address took three requests and two     *)
(* sleeps and has returned; the transactions fetch has not started yet.    *)
C12_Witness ==
    /\ pc = "transactions" /\ attempt = 0
    /\ idx = 2
    /\ fetch.fn = "balance" /\ ~fetch.running
    /\ Cardinality(CallsOf(fetch.events)) = 3
    /\ Cardinality(SleepsOf(fetch.events)) = 2
    /\ Len(fetched) = 3

(* C13: every sleep of a fetch lies between two attempts: a request        *)
(* follows it (or is still to come while the fetch is under way), and no   *)
(* sleep follows the third, last failed attempt.                           *)
C13_SleepOnlyBetweenAttempts ==
    LET ev == fetch.events
    IN  \A i \in SleepsOf(ev) :
            /\ ev[i].attempt < 2
            /\ \/ i < Len(ev) /\ ev[i + 1].e = "call"
               \/ i = Len(ev) /\ fetch.running

-----------------------------------------------------------------------------
(* Properties of the delay *)

(* What the claim expects: computeDelay of the specification's rate       *)
(* limiter (the code has none), for 2 calls per address, at most 0.5  *)
(* calls per second and a floor of 3.0 s, as the fraction << num, den >>:  *)
(* the floor if totalCalls <= 0.5 or there is no interval, otherwise       *)
(* max((totalCalls / 0.5) / (totalCalls - 1), 3.0).                        *)
ComputeDelay(addressCount) ==
    LET totalCalls == addressCount * 2
        required == totalCalls * 2
        intervals == totalCalls - 1
    IN  IF 2 * totalCalls <= 1 \/ intervals <= 0 THEN << 3, 1 >>
        ELSE IF required >= 3 * intervals THEN << required, intervals >>
        ELSE << 3, 1 >>

(* C14: the delay a batch passes to its fetches is the one computed from   *)
(* the number of its addresses (2 calls per address, at most 0.5 calls per *)
(* second, floor 3.0 s), so it is never below the floor of 3.0 s.          *)
C14_DelayFromAddressCount ==
    fetch.fn # "none" =>
        /\ fetch.delay >= 3
        /\ fetch.delay * ComputeDelay(Len(data))[2] = ComputeDelay(Len(data))[1]

-----------------------------------------------------------------------------
(* Properties of the store *)

(* C15: from the empty store, whatever the chats add and remove, no chat   *)
(* ever stores more than 15 addresses, and an Add Address on a chat that   *)
(* stores 15 is rejected and leaves its list as it is.                     *)
C15_AtMostFifteenAddresses ==
    /\ [](\A c \in Chats : Len(get_addresses_for_chat(c)) <= 15)
    /\ [][\A c \in Chats :
            /\ Len(get_addresses_for_chat(c)) = 15
            /\ "ADD_ADDRESS" \in conv[c]
            /\ event'.op = "add_address_receive" /\ event'.chat = c
            => /\ get_addresses_for_chat(c)' = get_addresses_for_chat(c)
               /\ event'.result # "added"]_vars

(* Chat 1 stores 15 addresses, after a removal, and has just been refused  *)
(* a 16th; chat 2 stores two addresses.                                    *)
C15_Witness ==
    /\ event.op = "add_address_receive" /\ event.chat = 1 /\ event.result = "maximum"
    /\ Len(get_addresses_for_chat(1)) = 15
    /\ removals = 1
    /\ Len(get_addresses_for_chat(2)) = 2

HexDigits == {"0", "1", "2", "3", "4", "5", "6", "7", "8", "9", "a", "b", "c", "d", "e", "f"}

(* A lowercase hexadecimal string of exactly 42 characters, 0x in front *)
IsHexAddress(a) ==
    /\ Len(a) = 42
    /\ a[1] = "0" /\ a[2] = "x"
    /\ \A j \in 3..42 : a[j] \in HexDigits

(* C16: every stored address is a lowercase hexadecimal string of exactly  *)
(* 42 characters with 0x in front; a text that is none is rejected: the    *)
(* list stays as it is and the conversation stays in ADD_ADDRESS.          *)
C16_StoredAddressesAreHex ==
    /\ [](\A c \in Chats : \A i \in DOMAIN get_addresses_for_chat(c) :
            IsHexAddress(get_addresses_for_chat(c)[i].address))
    /\ [][\A c \in Chats :
            /\ "ADD_ADDRESS" \in conv[c]
            /\ event'.op = "add_address_receive" /\ event'.chat = c
            /\ event'.result = "invalid"
            => /\ get_addresses_for_chat(c)' = get_addresses_for_chat(c)
               /\ "ADD_ADDRESS" \in conv'[c]]_vars

(* Texts that are below 60 or no number *)
BelowSixtyOrNoNumber ==
    { << "5", "9" >>, << "5", "9", ".", "9" >>, << "-", "5" >>, << "0" >>,
      << "a", "b", "c" >>, << "6", " ", "0" >>, << "1", ",", "5" >> }

-----------------------------------------------------------------------------
(* Properties of the alerts *)

(* alert_check is done with the list `txs` of the address fetch.wallet:    *)
(* it went on to the next address, or ended, or died on the list.          *)
AlertDecided ==
    /\ handler = "alert_check"
    /\ TransactionsReturned
    /\ pc \in {"transactions", "done"}

(* The first transaction of the list is more than 900 s old *)
NewestIsOlderThanFifteenMinutes(list) ==
    /\ list[1].timeStamp # << >>
    /\ IsIntString(list[1].timeStamp[1])
    /\ 1000 - StampValue(list[1].timeStamp[1]) > 900

(* C18: in a run of alert_check an address gets an alert exactly when its  *)
(* fetched list is empty, or its first transaction is more than 15 minutes *)
(* old, or its first 25 transactions are all heartbeats; it gets one alert *)
(* then, and none otherwise.                                               *)
C18_AlertIffDue ==
    AlertDecided =>
        Cardinality({i \in DOMAIN sent : sent[i].wallet = fetch.wallet}) =
            IF \/ txs = << >>
               \/ NewestIsOlderThanFifteenMinutes(txs)
               \/ AllHeartbeats(txs, 25)
            THEN 1 ELSE 0

-----------------------------------------------------------------------------
(* Properties of the job queue *)

(* The jobs that run for a chat *)
JobsOf(c) == SelectSeq(jobs, LAMBDA j : j.chat = c)

JobsOfKind(c, callback) == SelectSeq(jobs, LAMBDA j : j.chat = c /\ j.callback = callback)

(* C19: Stop removes every auto-update and alert job of its chat and no    *)
(* job of another chat; a job runs only while it is in the queue, and a    *)
(* chat without jobs gets one again only by a start command of its own,    *)
(* so that after Stop nothing runs for the chat until it starts a job.     *)
C19_StopRemovesAllJobsOfTheChat ==
    [][\A c \in Chats :
        /\ event'.op = "menu_stop" /\ event'.chat = c
              => /\ JobsOf(c)' = << >>
                 /\ \A d \in Chats \ {c} : JobsOf(d)' = JobsOf(d)
        /\ (event' # event /\ event'.chat = c /\ event'.op \in {"auto_update", "alert_check"})
              => JobsOfKind(c, event'.op) # << >>
        /\ JobsOf(c) = << >> /\ JobsOf(c)' # << >>
              => /\ event'.op \in {"menu_auto_update", "menu_enable_alerts"}
                 /\ event'.chat = c /\ event'.result = "started"]_vars

(* Chat 1 has just stopped its jobs; the two jobs of chat 2 are still in   *)
(* the queue.                                                              *)
C19_Witness ==
    /\ event = Event("menu_stop", 1, "stopped")
    /\ JobsOf(1) = << >>
    /\ Len(JobsOf(2)) = 2

(* C20: a chat has at most one auto-update job and at most one alert job;  *)
(* a start command of a chat that has the job already, or that stores no   *)
(* address, schedules nothing.                                             *)
C20_AtMostOneJobOfAKind ==
    /\ [](\A c \in Chats : \A callback \in {"auto_update", "alert_check"} :
            Len(JobsOfKind(c, callback)) <= 1)
    /\ [][\A c \in Chats :
            /\ (/\ event'.op = "menu_auto_update" /\ event'.chat = c
                /\ (JobsOfKind(c, "auto_update") # << >> \/ get_addresses_for_chat(c) = << >>))
                  => jobs' = jobs
            /\ (/\ event'.op = "menu_enable_alerts" /\ event'.chat = c
                /\ (JobsOfKind(c, "alert_check") # << >> \/ get_addresses_for_chat(c) = << >>))
                  => jobs' = jobs]_vars

(* Chat 1, with both jobs in the queue, has asked for Auto Update again;   *)
(* chat 2 stores no address and has no job.                                *)
C20_Witness ==
    /\ event = Event("menu_auto_update", 1, "already active")
    /\ Len(JobsOfKind(1, "auto_update")) = 1
    /\ Len(JobsOfKind(1, "alert_check")) = 1
    /\ get_addresses_for_chat(2) = << >>
    /\ JobsOf(2) = << >>

-----------------------------------------------------------------------------
(* Properties of Add Address and Remove Address on spelled texts *)

(* The address a text names: what stands before the first comma, without   *)
(* the blanks around it                                                    *)
TypedAddress(text) == Strip(Split(Strip(text))[1])

(* The entries of `list` whose address is `a`, letter case set aside *)
StoredAs(list, a) == {i \in DOMAIN list : Lower(list[i].address) = Lower(a)}

(* C21: from the empty store, whatever a chat adds and removes, no two     *)
(* entries of its list have the same address, letter case and labels set   *)
(* aside; and an Add Address whose text names a stored address, in any     *)
(* letter case and with any label, adds nothing: data.json stays as it is. *)
C21_AddressesPairwiseDistinct ==
    /\ [](\A c \in Chats : \A i, j \in DOMAIN get_addresses_for_chat(c) :
            i # j => Lower(get_addresses_for_chat(c)[i].address)
                        # Lower(get_addresses_for_chat(c)[j].address))
    /\ [][\A c \in Chats :
            /\ "ADD_ADDRESS" \in conv[c]
            /\ event'.op = "add_address_receive" /\ event'.chat = c
            /\ StoredAs(get_addresses_for_chat(c), TypedAddress(event'.text)) # {}
            => /\ file' = file
               /\ event'.result = "exists"]_vars

(* After a removal the chat stores wallet 2 under the label n2 and two     *)
(* more wallets, and has just been refused wallet 2 typed in upper case    *)
(* without a label.                                                        *)
C21_Witness ==
    /\ event = TextEvent("add_address_receive", 2, "exists", WalletText(2, TRUE))
    /\ \E i \in DOMAIN get_addresses_for_chat(2) :
            get_addresses_for_chat(2)[i] = [address |-> WalletTexts[2], label |-> << "n", "2" >>]
    /\ Len(get_addresses_for_chat(2)) = 3
    /\ removals > 0

(* The entries of `list` shown on the button `choice` *)
ShownAs(list, choice) == {i \in DOMAIN list : Display(list[i]) = choice}

(* `list` without its entry i *)
Without(list, i) == SubSeq(list, 1, i - 1) \o SubSeq(list, i + 1, Len(list))

(* C22: a choice that is the display string of a stored entry removes that *)
(* entry and no other, the others keeping their labels and their order; a  *)
(* choice that is the display string of no entry, `Cancel` among them,     *)
(* leaves data.json as it is; in all these cases Remove Address has ended  *)
(* and nothing else of data.json has changed.                              *)
C22_RemoveExactlyTheChoice ==
    [][\A c \in Chats :
            /\ "REMOVE_ADDRESS" \in conv[c]
            /\ event'.op = "remove_address_receive" /\ event'.chat = c
            => LET list == get_addresses_for_chat(c)
                   shown == ShownAs(list, Strip(event'.text))
               IN  /\ "REMOVE_ADDRESS" \notin conv'[c]
                   /\ shown = {} => file' = file /\ event'.result # "removed"
                   /\ shown # {} =>
                        /\ \E i \in shown : shown = {i}
                                /\ file' = update_addresses_for_chat(c, Without(list, i))
                        /\ event'.result = "removed"]_vars

(* The chat stored wallets 0, 1 and 2, the last under the label n2, chose  *)
(* the button of wallet 1 with blanks around it, and now stores wallet 0   *)
(* and wallet 2 with its label, in this order.                             *)
C22_Witness ==
    /\ event = TextEvent("remove_address_receive", 2, "removed",
                         << " " >> \o WalletTexts[1] \o << " " >>)
    /\ get_addresses_for_chat(2) = << [address |-> WalletTexts[0], label |-> << >>],
                                      [address |-> WalletTexts[2], label |-> << "n", "2" >>] >>
    /\ "REMOVE_ADDRESS" \notin conv[2]

-----------------------------------------------------------------------------
(* Properties of a job that runs beside the commands *)

(* The addresses the dict `d` of data.json holds for chat c, cut to a batch *)
BatchIn(d, c) == IF c \in DOMAIN d THEN Slice(d[c].addresses, 0, 15) ELSE << >>

(* C23: a job that runs beside a command of its chat reads the list once,  *)
(* when it starts, and reads either the list data.json held before the     *)
(* command or the list it holds after it, never the empty or half-written  *)
(* file in between; what the chat changes later does not change the        *)
(* addresses the running batch evaluates.                                  *)
C23_JobReadsBeforeOrAfter ==
    /\ [][handler = "none" /\ handler' # "none"
            => addresses' \in { BatchIn(written, event'.chat), BatchIn(file, event'.chat) }]_vars
    /\ [][handler # "none" => addresses' = addresses]_vars

=============================================================================
